---- MODULE Spec2Model ----
(***************************************************************************)
(* Model of src/src/tracking.rs: TrackingWheel and ParallelWheelTracking,  *)
(* the dead-reckoning pose estimator of vexnav.                            *)
(*                                                                         *)
(* f64 values are modelled as extended fixed-point numbers: a record       *)
(* [k, v] with k = "fin" (v is the value in units of 1/Scale), k = "inf"   *)
(* (v is the sign) or k = "nan".  Addition, subtraction and the remainder  *)
(* are exact on this representation; products and quotients are truncated  *)
(* to the resolution.  Division by zero, inf * 0 and inf % x follow        *)
(* IEEE-754 (the sign of a zero is not modelled).                          *)
(*                                                                         *)
(* One action is one call of the Tracking trait on the estimator; every    *)
(* device read made inside one call sees the same device readings.  The    *)
(* devices change between calls (action Move).                             *)
(***************************************************************************)
EXTENDS Integers, Sequences, FiniteSets, TLC

\* Resolution of the fixed-point representation of f64: 1.0 is Scale.
Scale == 1000

\* core::f64::consts::FRAC_2_PI (2/pi = 0.6366...) and PI, in 1/Scale.
FRAC_2_PI == 637
PI == 3142

\* Bound on the number of calls made on the estimator in one behaviour.
MaxSteps == 3

----------------------------------------------------------------------------
(* f64 arithmetic *)

Abs(n) == IF n < 0 THEN -n ELSE n

Sign(n) == IF n < 0 THEN -1 ELSE 1

\* Integer quotient truncated toward zero.
TruncDiv(a, b) == Sign(a) * Sign(b) * (Abs(a) \div Abs(b))

Fin(n) == [k |-> "fin", v |-> n]
Inf(s) == [k |-> "inf", v |-> s]
NaN == [k |-> "nan", v |-> 0]

IsFin(a) == a.k = "fin"

FNeg(a) == IF a.k = "nan" THEN NaN ELSE [k |-> a.k, v |-> -a.v]

FAbs(a) == IF a.k = "nan" THEN NaN ELSE [k |-> a.k, v |-> Abs(a.v)]

FAdd(a, b) ==
    IF a.k = "nan" \/ b.k = "nan" THEN NaN
    ELSE IF a.k = "inf" /\ b.k = "inf" THEN (IF a.v = b.v THEN a ELSE NaN)
    ELSE IF a.k = "inf" THEN a
    ELSE IF b.k = "inf" THEN b
    ELSE Fin(a.v + b.v)

FSub(a, b) == FAdd(a, FNeg(b))

FMul(a, b) ==
    IF a.k = "nan" \/ b.k = "nan" THEN NaN
    ELSE IF a.k = "inf" \/ b.k = "inf"
         THEN (IF a.v = 0 \/ b.v = 0 THEN NaN ELSE Inf(Sign(a.v) * Sign(b.v)))
    ELSE Fin(TruncDiv(a.v * b.v, Scale))

FDiv(a, b) ==
    IF a.k = "nan" \/ b.k = "nan" THEN NaN
    ELSE IF a.k = "inf"
         THEN (IF b.k = "inf" THEN NaN ELSE Inf(Sign(a.v) * Sign(b.v)))
    ELSE IF b.k = "inf" THEN Fin(0)
    ELSE IF b.v = 0 THEN (IF a.v = 0 THEN NaN ELSE Inf(Sign(a.v)))
    ELSE Fin(TruncDiv(a.v * Scale, b.v))

\* The % of f64: the remainder of the truncated quotient, with the sign of
\* the dividend.
FRem(a, b) ==
    IF a.k = "nan" \/ b.k = "nan" \/ a.k = "inf" THEN NaN
    ELSE IF b.k = "inf" THEN a
    ELSE IF b.v = 0 THEN NaN
    ELSE Fin(a.v - b.v * TruncDiv(a.v, b.v))

\* x - x^3/3! + x^5/5! - ... (sine, from term = x and n = 1) and
\* 1 - x^2/2! + x^4/4! - ... (cosine, from term = 1 and n = 0), summed
\* until the terms vanish at the resolution.
RECURSIVE Series(_, _, _)
Series(x, term, n) ==
    IF term = 0 THEN 0
    ELSE term + Series(x,
                       -TruncDiv(TruncDiv(term * x, Scale) * x,
                                 Scale * (n + 1) * (n + 2)),
                       n + 2)

\* The argument reduced into [-pi, pi].
Reduce(x) ==
    LET r == x - (2 * PI) * TruncDiv(x, 2 * PI)
    IN  IF r > PI THEN r - 2 * PI ELSE IF r < -PI THEN r + 2 * PI ELSE r

FSin(a) == IF IsFin(a) THEN Fin(Series(Reduce(a.v), Reduce(a.v), 1)) ELSE NaN

FCos(a) == IF IsFin(a) THEN Fin(Series(Reduce(a.v), Scale, 0)) ELSE NaN

Zero == Fin(0)
One == Fin(Scale)
Two == Fin(2 * Scale)

----------------------------------------------------------------------------
(* crate::math::Vec2 *)

Vec2(x, y) == [x |-> x, y |-> y]

from_polar(r, theta) == Vec2(FMul(r, FCos(theta)), FMul(r, FSin(theta)))

VecAdd(a, b) == Vec2(FAdd(a.x, b.x), FAdd(a.y, b.y))

VecIsFin(a) == IsFin(a.x) /\ IsFin(a.y)

----------------------------------------------------------------------------
(* devices, Option and Result *)

Ok(x) == [ok |-> TRUE, v |-> x]
Err == [ok |-> FALSE, v |-> NaN]

Some(x) == [some |-> TRUE, v |-> x]
None == [some |-> FALSE, v |-> NaN]

unwrap_or(opt, d) == IF opt.some THEN opt.v ELSE d

\* The outcome of a call: a returned value, or a panic.
Ret(x) == [panic |-> FALSE, v |-> x]
Panicked == [panic |-> TRUE, v |-> NaN]

----------------------------------------------------------------------------
(* state *)

VARIABLES
    position,             \* ParallelWheelTracking.position
    left_wheel,           \* ParallelWheelTracking.left_wheel (with its sensor's reading)
    right_wheel,          \* ParallelWheelTracking.right_wheel (with its sensor's reading)
    gyro,                 \* ParallelWheelTracking.gyro (with the device's reading)
    heading_offset,       \* ParallelWheelTracking.heading_offset
    prev_forward_travel,  \* ParallelWheelTracking.prev_forward_travel
    prev_heading,         \* ParallelWheelTracking.prev_heading
    call,                 \* the last call made on the estimator and its outcome
    observed,             \* what heading() and position() returned since the last update or setter
    advanced,             \* the travel and heading the last successful update computed
    steps                 \* number of calls made so far

vars == <<position, left_wheel, right_wheel, gyro, heading_offset,
          prev_forward_travel, prev_heading, call, observed, advanced,
          steps>>

\* The fields update and the setters may write.
Pose == [position |-> position, heading_offset |-> heading_offset,
         prev_forward_travel |-> prev_forward_travel,
         prev_heading |-> prev_heading]

\* What the devices read now.
Readings == <<left_wheel.sensor, right_wheel.sensor, gyro>>

(* inputs *)

\* The estimators built: the initial heading, the (left, right) wheel
\* offsets and whether a gyroscope is given to new.
Builds ==
    ({Zero, One} \X {<<Fin(5 * Scale), Fin(5 * Scale)>>} \X BOOLEAN)
    \cup {<<Zero, <<Fin(-5 * Scale), Fin(5 * Scale)>>, FALSE>>}

\* Values given to set_heading.
HeadingArgs == {Zero, Two}

\* Values given to set_position.
PositionArgs == {Vec2(One, One)}

\* (left, right) rotary sensor outcomes: a rotation in radians, or a fault.
Rotations == {<<Ok(Zero), Ok(Zero)>>, <<Ok(One), Ok(One)>>,
              <<Ok(Zero), Ok(One)>>,
              <<Err, Ok(One)>>, <<Ok(One), Err>>}

\* Gyroscope outcomes: a heading in radians, or a fault.
GyroReadings == {Ok(One), Err}

----------------------------------------------------------------------------
(* TrackingWheel *)

TrackingWheel(sensor, wheel_diameter, offset, gearing) ==
    [sensor |-> sensor, wheel_diameter |-> wheel_diameter,
     offset |-> offset, gearing |-> gearing]

\* The expect on the sensor's rotation panics on a fault.
travel(w) ==
    IF ~w.sensor.ok THEN Panicked
    ELSE LET wheel_circumference == FMul(w.wheel_diameter, Fin(PI))
         IN  Ret(FMul(FMul(FDiv(w.sensor.v, Fin(FRAC_2_PI)),
                           unwrap_or(w.gearing, One)),
                      wheel_circumference))

(* ParallelWheelTracking *)

track_width == FAdd(left_wheel.offset, right_wheel.offset)

forward_travel ==
    LET l == travel(left_wheel)
        r == travel(right_wheel)
    IN  IF l.panic \/ r.panic THEN Panicked
        ELSE Ret(FDiv(FAdd(l.v, r.v), Two))

\* (right_wheel.travel() - left_wheel.travel()) / track_width()
kinematic ==
    LET r == travel(right_wheel)
        l == travel(left_wheel)
    IN  IF r.panic \/ l.panic THEN Panicked
        ELSE Ret(FDiv(FSub(r.v, l.v), track_width))

\* fused with unwrap_or(0.0) in place of the kinematic fallback.
fused_or_zero(g) ==
    IF g.some
    THEN (IF g.heading.ok THEN Ret(g.heading.v) ELSE Ret(Zero))
    ELSE kinematic

\* The operand of % in heading(): the gyroscope's heading, or the kinematic
\* heading when the gyroscope is absent or its read fails.
fused(g) ==
    IF g.some
    THEN (IF g.heading.ok THEN Ret(g.heading.v) ELSE kinematic)
    ELSE kinematic

\* heading_offset + (<fused> % FRAC_2_PI): % binds tighter than +.
heading_with(g) ==
    LET f == fused(g)
    IN  IF f.panic THEN Panicked
        ELSE Ret(FAdd(heading_offset, FRem(f.v, Fin(FRAC_2_PI))))

heading == heading_with(gyro)

\* The new heading_offset of set_heading(value).
set_heading(value) ==
    LET h == heading
    IN  IF h.panic THEN Panicked ELSE Ret(FSub(value, h.v))

\* displacement with the sine of the whole heading.
displacement_full_angle(ft, h) ==
    LET delta_forward_travel == FSub(ft, prev_forward_travel)
        delta_heading == FSub(h, prev_heading)
    IN  from_polar(
            FMul(FMul(Two, FDiv(delta_forward_travel, delta_heading)),
                 FSin(h)),
            FDiv(FAdd(prev_heading, delta_heading), Two))

\* The vector update adds to position, from the values it read.
displacement(ft, h) ==
    LET delta_forward_travel == FSub(ft, prev_forward_travel)
        delta_heading == FSub(h, prev_heading)
    IN  from_polar(
            FMul(FMul(Two, FDiv(delta_forward_travel, delta_heading)),
                 FSin(FDiv(h, Two))),
            FDiv(FAdd(prev_heading, delta_heading), Two))

\* update storing the left wheel's travel before it reads the right wheel.
update_partial ==
    LET ft == forward_travel
        h == heading
        l == travel(left_wheel)
    IN  IF ft.panic \/ h.panic
        THEN [panic |-> TRUE, position |-> position,
              prev_forward_travel |->
                  IF l.panic THEN prev_forward_travel ELSE l.v]
        ELSE [panic |-> FALSE,
              position |-> VecAdd(position, displacement(ft.v, h.v)),
              prev_forward_travel |-> ft.v]

\* The fields update leaves behind; both reads come before any write.
update ==
    LET ft == forward_travel
        h == heading
    IN  IF ft.panic \/ h.panic
        THEN [panic |-> TRUE, position |-> position,
              prev_forward_travel |-> prev_forward_travel]
        ELSE [panic |-> FALSE,
              position |-> VecAdd(position, displacement(ft.v, h.v)),
              prev_forward_travel |-> ft.v]

----------------------------------------------------------------------------
(* calls *)

Call(op, arg, argv, r, rv) ==
    [op |-> op, arg |-> arg, argv |-> argv, panic |-> r.panic, ret |-> r.v,
     retv |-> rv, pre |-> Pose]

NoVec == Vec2(NaN, NaN)

NoCall ==
    [op |-> "none", arg |-> NaN, argv |-> NoVec, panic |-> FALSE, ret |-> NaN,
     retv |-> NoVec,
     pre |-> [position |-> NoVec, heading_offset |-> NaN,
              prev_forward_travel |-> NaN, prev_heading |-> NaN]]

NotObserved ==
    [h |-> [n |-> 0, panic |-> FALSE, v |-> NaN, readings |-> <<>>],
     p |-> [n |-> 0, v |-> NoVec]]

NotAdvanced == [done |-> FALSE, forward_travel |-> Zero, heading |-> Zero]

new(origin, h, left, right, g) ==
    /\ position = origin
    /\ left_wheel = left
    /\ right_wheel = right
    /\ gyro = g
    /\ heading_offset = h
    /\ prev_forward_travel = Zero
    /\ prev_heading = Zero

Init ==
    /\ \E b \in Builds :
          new(Vec2(Zero, Zero), b[1],
              TrackingWheel(Ok(Zero), Two, b[2][1], None),
              TrackingWheel(Ok(Zero), Two, b[2][2], Some(One)),
              [some |-> b[3], heading |-> IF b[3] THEN Ok(One) ELSE Err])
    /\ call = NoCall
    /\ observed = NotObserved
    /\ advanced = NotAdvanced
    /\ steps = 0

\* The robot moves, a device faults or recovers: the readings change.
Move ==
    /\ \E r \in Rotations, g \in GyroReadings :
          /\ left_wheel' = [left_wheel EXCEPT !.sensor = r[1]]
          /\ right_wheel' = [right_wheel EXCEPT !.sensor = r[2]]
          /\ gyro' = IF gyro.some THEN [gyro EXCEPT !.heading = g] ELSE gyro
    /\ Readings' # Readings
    /\ call' = NoCall
    /\ UNCHANGED <<position, heading_offset, prev_forward_travel,
                   prev_heading, observed, advanced, steps>>

Position ==
    /\ steps < MaxSteps
    /\ steps' = steps + 1
    /\ call' = Call("position", NaN, NoVec, Ret(NaN), position)
    /\ observed' = [observed EXCEPT
                       !.p = [n |-> observed.p.n + 1, v |-> position]]
    /\ UNCHANGED <<position, left_wheel, right_wheel, gyro, heading_offset,
                   prev_forward_travel, prev_heading, advanced>>

SetPosition ==
    /\ steps < MaxSteps
    /\ steps' = steps + 1
    /\ \E p \in PositionArgs :
          /\ position' = p
          /\ call' = Call("set_position", NaN, p, Ret(NaN), NoVec)
    /\ observed' = NotObserved
    /\ UNCHANGED <<left_wheel, right_wheel, gyro, heading_offset,
                   prev_forward_travel, prev_heading, advanced>>

ForwardTravel ==
    /\ steps < MaxSteps
    /\ steps' = steps + 1
    /\ call' = Call("forward_travel", NaN, NoVec, forward_travel, NoVec)
    /\ UNCHANGED <<position, left_wheel, right_wheel, gyro, heading_offset,
                   prev_forward_travel, prev_heading, observed, advanced>>

\* heading() keeping the value it returns as the new heading_offset.
HeadingCaching ==
    /\ steps < MaxSteps
    /\ steps' = steps + 1
    /\ call' = Call("heading", NaN, NoVec, heading, NoVec)
    /\ observed' = [observed EXCEPT
                       !.h = [n |-> observed.h.n + 1, panic |-> heading.panic,
                              v |-> heading.v, readings |-> Readings]]
    /\ heading_offset' = IF heading.panic THEN heading_offset ELSE heading.v
    /\ UNCHANGED <<position, left_wheel, right_wheel, gyro,
                   prev_forward_travel, prev_heading, advanced>>

Heading ==
    /\ steps < MaxSteps
    /\ steps' = steps + 1
    /\ call' = Call("heading", NaN, NoVec, heading, NoVec)
    /\ observed' = [observed EXCEPT
                       !.h = [n |-> observed.h.n + 1, panic |-> heading.panic,
                              v |-> heading.v, readings |-> Readings]]
    /\ UNCHANGED <<position, left_wheel, right_wheel, gyro, heading_offset,
                   prev_forward_travel, prev_heading, advanced>>

\* set_heading also restarting the travel history.
SetHeadingResetting ==
    /\ steps < MaxSteps
    /\ steps' = steps + 1
    /\ \E value \in HeadingArgs :
          LET r == set_heading(value)
          IN  /\ heading_offset' = IF r.panic THEN heading_offset ELSE r.v
              /\ call' = Call("set_heading", value, NoVec,
                              [panic |-> r.panic, v |-> NaN], NoVec)
    /\ observed' = NotObserved
    /\ prev_forward_travel' = Zero
    /\ UNCHANGED <<position, left_wheel, right_wheel, gyro, prev_heading,
                   advanced>>

SetHeading ==
    /\ steps < MaxSteps
    /\ steps' = steps + 1
    /\ \E value \in HeadingArgs :
          LET r == set_heading(value)
          IN  /\ heading_offset' = IF r.panic THEN heading_offset ELSE r.v
              /\ call' = Call("set_heading", value, NoVec,
                              [panic |-> r.panic, v |-> NaN], NoVec)
    /\ observed' = NotObserved
    /\ UNCHANGED <<position, left_wheel, right_wheel, gyro,
                   prev_forward_travel, prev_heading, advanced>>

Update ==
    /\ steps < MaxSteps
    /\ steps' = steps + 1
    /\ position' = update.position
    /\ prev_forward_travel' = update.prev_forward_travel
    /\ call' = Call("update", NaN, NoVec,
                    [panic |-> update.panic, v |-> NaN], NoVec)
    /\ observed' = NotObserved
    /\ advanced' = IF update.panic THEN advanced
                   ELSE [done |-> TRUE, forward_travel |-> forward_travel.v,
                         heading |-> heading.v]
    /\ UNCHANGED <<left_wheel, right_wheel, gyro, heading_offset, prev_heading>>

Next ==
    \/ Move
    \/ Position
    \/ SetPosition
    \/ ForwardTravel
    \/ Heading
    \/ SetHeading
    \/ Update

Spec == Init /\ [][Next]_vars

----------------------------------------------------------------------------
(* properties *)

\* A rotary sensor read faults with the present readings.
RotaryFault == ~left_wheel.sensor.ok \/ ~right_wheel.sensor.ok

\* The last call was update and it returned; the readings are those it read
\* (Move clears call).
Updated == call.op = "update" /\ ~call.panic

UpdDeltaTravel == FSub(forward_travel.v, call.pre.prev_forward_travel)
UpdDeltaHeading == FSub(heading.v, call.pre.prev_heading)

\* C1: set_heading(h) followed immediately by heading(), with the same sensor
\* readings, returns h (stated for the headings that are numbers).
C1_SetHeadingThenHeading ==
    (call.op = "set_heading" /\ ~call.panic /\ IsFin(heading.v))
        => (~heading.panic /\ heading.v = call.arg)

\* C2: an update that finds delta_heading exactly zero adds to position the
\* straight-line displacement of magnitude delta_travel along the current
\* heading, and the stored position stays finite.
C2_StraightLineFallback ==
    (Updated /\ UpdDeltaHeading = Zero)
        => /\ VecIsFin(position)
           /\ position = VecAdd(call.pre.position,
                                from_polar(UpdDeltaTravel, heading.v))
           /\ heading_offset = call.pre.heading_offset

\* C3: an update during which a rotary sensor read faults fails (the fault
\* reaches the caller) and leaves position, heading_offset,
\* prev_forward_travel and prev_heading exactly as they were before the call.
C3_FaultCommitsNothing ==
    call.op = "update"
        => /\ call.panic <=> RotaryFault
           /\ call.panic => Pose = call.pre

C3_Wit ==
    /\ call.op = "update"
    /\ call.panic
    /\ RotaryFault
    /\ advanced.done
    /\ prev_forward_travel # Zero

\* C4: with a gyroscope whose read faults, heading() returns exactly what it
\* returns with no gyroscope, for the same wheel readings, offsets and
\* heading_offset; the gyroscope's fault makes neither heading() nor update
\* fail.
C4_GyroFaultIsKinematic ==
    LET faulting == [some |-> TRUE, heading |-> Err]
        absent == [some |-> FALSE, heading |-> Err]
        faulted == gyro.some /\ ~gyro.heading.ok
    IN  /\ heading_with(faulting) = heading_with(absent)
        /\ heading_with(faulting).panic <=> RotaryFault
        /\ (call.op = "heading" /\ faulted)
              => [panic |-> call.panic, v |-> call.ret] = heading_with(absent)
        /\ (call.op \in {"heading", "update"} /\ faulted /\ ~RotaryFault)
              => ~call.panic

C4_Wit ==
    /\ call.op = "heading"
    /\ gyro.some
    /\ ~gyro.heading.ok
    /\ ~call.panic
    /\ IsFin(call.ret)
    /\ call.ret # heading_offset

\* A step that is a call of heading(), of position().
HeadingCall == call'.op = "heading" /\ steps' = steps + 1
PositionCall == call'.op = "position" /\ steps' = steps + 1

\* C5 as stated: heading() and position() called again with no update and no
\* setter in between return what they returned before.
C5_GettersIdempotent ==
    [][/\ (HeadingCall /\ observed.h.n > 0)
            => (call'.panic = observed.h.panic /\ call'.ret = observed.h.v)
       /\ (PositionCall /\ observed.p.n > 0)
            => call'.retv = observed.p.v]_vars

\* C5 amended: position() called again with no update and no setter in
\* between returns what it returned before; so does heading() when the
\* devices read what they read at the earlier call.
C5_GettersRepeatable ==
    [][/\ (HeadingCall /\ observed.h.n > 0 /\ observed.h.readings = Readings)
            => (call'.panic = observed.h.panic /\ call'.ret = observed.h.v)
       /\ (PositionCall /\ observed.p.n > 0)
            => call'.retv = observed.p.v]_vars

C5_Wit ==
    /\ call.op = "heading"
    /\ ~call.panic
    /\ observed.h.n >= 2
    /\ observed.p.n >= 1
    /\ call.ret # Zero

\* C6: the heading reported lies within the range of the wrap constant
\* (stated for the headings that are numbers).
C6_HeadingBounded ==
    (~heading.panic /\ IsFin(heading.v)) => Abs(heading.v.v) < FRAC_2_PI

\* C7: set_heading changes heading_offset only: position,
\* prev_forward_travel and prev_heading are as before the call.
C7_SetHeadingFrame ==
    call.op = "set_heading"
        => /\ position = call.pre.position
           /\ prev_forward_travel = call.pre.prev_forward_travel
           /\ prev_heading = call.pre.prev_heading

C7_Wit ==
    /\ call.op = "set_heading"
    /\ ~call.panic
    /\ heading_offset # call.pre.heading_offset
    /\ prev_forward_travel # Zero
    /\ position # Vec2(Zero, Zero)

\* C8: prev_forward_travel and prev_heading are the forward travel and the
\* heading the most recent successful update computed, or 0 and 0 before
\* the first one (stated for the headings that are numbers).
C8_HistoryTracksUpdate ==
    IsFin(advanced.heading)
        => /\ prev_forward_travel = advanced.forward_travel
           /\ prev_heading = advanced.heading

C10_TrackWidthMagnitudes ==
    track_width = FAdd(FAbs(left_wheel.offset), FAbs(right_wheel.offset))

====
